---- MODULE Spec2Model ----
(***************************************************************************)
(* YTML: conversion of a tree of single-key mappings into HTML or into a   *)
(* Jinja2 template (src/ytml.py).                                          *)
(*                                                                         *)
(* Python strings are modelled as sequences of atoms.  An atom is either a *)
(* single character (" ", "\n", "(", ")", ".", "#", "$", "{", "}", "&",    *)
(* "<", ">", "\"", "'") or an indivisible word made of characters that no  *)
(* regular expression or replace of the program treats specially.          *)
(*                                                                         *)
(* Python values are records tagged with their type:                       *)
(*   None  [type |-> "NoneType"]                                           *)
(*   str   [type |-> "str",  s |-> <<atoms>>]                              *)
(*   list  [type |-> "list", items |-> <<values>>]                         *)
(*   dict  [type |-> "dict", items |-> << <<key, value>>, ... >>]          *)
(*   int   [type |-> "int"]   (any value of another type)                  *)
(***************************************************************************)
EXTENDS Integers, Sequences, FiniteSets, TLC

VARIABLES obj, cls, indent_len, pretty, formatter, stack, returned

vars == <<obj, cls, indent_len, pretty, formatter, stack, returned>>

-----------------------------------------------------------------------------
(* Python values *)

None == [type |-> "NoneType"]

PyStr(s) == [type |-> "str", s |-> s]

PyList(items) == [type |-> "list", items |-> items]

PyDict(items) == [type |-> "dict", items |-> items]

PyInt == [type |-> "int"]

\* {key: value}
Desc(key, value) == PyDict(<< <<key, value>> >>)

-----------------------------------------------------------------------------
(* Regular-expression character classes and string helpers *)

\* \s
IsSpace(c) == c \in {" ", "\n", "\t"}

\* [^\(\)\s]
IsNameChar(c) == ~IsSpace(c) /\ c \notin {"(", ")"}

\* length of the longest prefix of s, from position i, whose atoms are whitespace
RECURSIVE SpaceRun(_, _)
SpaceRun(s, i) ==
    IF i <= Len(s) /\ IsSpace(s[i]) THEN 1 + SpaceRun(s, i + 1) ELSE 0

\* \S+ : length of the longest run of non-whitespace atoms of s from position i
RECURSIVE NonSpaceRun(_, _)
NonSpaceRun(s, i) ==
    IF i <= Len(s) /\ ~IsSpace(s[i]) THEN 1 + NonSpaceRun(s, i + 1) ELSE 0

\* [^\(\)\s]+ : length of the longest run of name characters of s from position i
RECURSIVE NameRun(_, _)
NameRun(s, i) ==
    IF i <= Len(s) /\ IsNameChar(s[i]) THEN 1 + NameRun(s, i + 1) ELSE 0

\* s[i:]
From(s, i) == SubSeq(s, i, Len(s))

\* str.find(c) >= 0
Contains(s, c) == \E i \in DOMAIN s : s[i] = c

\* str.replace(old, new) for a one-character old
RECURSIVE Replace(_, _, _)
Replace(s, old, new) ==
    IF s = <<>> THEN <<>>
    ELSE (IF s[1] = old THEN new ELSE <<s[1]>>) \o Replace(Tail(s), old, new)

\* ' ' * n
RECURSIVE Spaces(_)
Spaces(n) == IF n <= 0 THEN <<>> ELSE <<" ">> \o Spaces(n - 1)

\* str.strip()
RECURSIVE LStrip(_)
LStrip(s) == IF s # <<>> /\ IsSpace(s[1]) THEN LStrip(Tail(s)) ELSE s

RECURSIVE RStrip(_)
RStrip(s) ==
    IF s # <<>> /\ IsSpace(s[Len(s)]) THEN RStrip(SubSeq(s, 1, Len(s) - 1)) ELSE s

Strip(s) == RStrip(LStrip(s))

\* str.split('\n'): the sequence of lines
RECURSIVE Split(_)
Split(s) ==
    IF ~Contains(s, "\n") THEN <<s>>
    ELSE LET i == CHOOSE k \in DOMAIN s :
                      s[k] = "\n" /\ \A j \in 1..(k - 1) : s[j] # "\n"
         IN <<SubSeq(s, 1, i - 1)>> \o Split(From(s, i + 1))

-----------------------------------------------------------------------------
(* PrettyFormatter: the state is [indent_len, indent] *)

\* default of indent_length / indent_len
DefaultIndentLen == 4

PrettyFormatter(indent_length) == [indent_len |-> indent_length, indent |-> 0]

apply_condition(conditions) == \A i \in DOMAIN conditions : conditions[i]

add_indent(f, conditions) ==
    IF apply_condition(conditions) THEN [f EXCEPT !.indent = @ + 1] ELSE f

del_indent(f, conditions) ==
    IF apply_condition(conditions) /\ f.indent > 0
    THEN [f EXCEPT !.indent = @ - 1] ELSE f

\* get_add_indent with the conditions forgotten
get_add_indent_unconditional(f, add, conditions) == f.indent + add

get_add_indent(f, add, conditions) ==
    IF apply_condition(conditions) THEN f.indent + add ELSE f.indent

\* level = -1 is the default argument
output_space(f, conditions, level) ==
    IF apply_condition(conditions)
    THEN LET val == IF level >= 0 THEN level ELSE f.indent
         IN Spaces(f.indent_len * val)
    ELSE <<>>

output_newline(conditions) ==
    IF apply_condition(conditions) THEN <<"\n">> ELSE <<>>

RECURSIVE IndentLines(_, _)
IndentLines(f, lines) ==
    IF lines = <<>> THEN <<>>
    ELSE output_space(f, <<>>, -1) \o lines[1] \o <<"\n">>
         \o IndentLines(f, Tail(lines))

\* output_indented_text with only the first line of the text kept
output_indented_text_first_line(f, text, conditions) ==
    IF apply_condition(conditions)
    THEN IndentLines(f, <<Split(Strip(text))[1]>>)
    ELSE text

output_indented_text(f, text, conditions) ==
    IF apply_condition(conditions) THEN IndentLines(f, Split(Strip(text)))
    ELSE text

-----------------------------------------------------------------------------
(* Class attributes of YTML and of YTMLJinja (cls is "YTML" or "YTMLJinja") *)

Classes == {"YTML", "YTMLJinja"}

void_tags ==
    { <<"area">>, <<"base">>, <<"br">>, <<"col">>, <<"embed">>, <<"hr">>,
      <<"img">>, <<"input">>, <<"link">>, <<"meta">>, <<"param">>,
      <<"source">>, <<"track">>, <<"wbr">> }

template_tags(c) ==
    IF c = "YTMLJinja"
    THEN { <<"for">>, <<"if">>, <<"then">>, <<"elif">>, <<"else">>,
           <<"block">>, <<"filter">>, <<"macro">>, <<"call">>, <<"raw">> }
    ELSE {}

template_void_tags(c) ==
    IF c = "YTMLJinja" THEN { <<"include">>, <<"extends">>, <<"set">> } ELSE {}

html_tag_start == <<"<">>
html_tag_end == <<">">>
html_tag_end_close == <<"</">>
html_tag_end_self_close == <<"/>">>

template_tag_start(c) == IF c = "YTMLJinja" THEN <<"{%", " ">> ELSE <<>>
template_tag_end(c) == IF c = "YTMLJinja" THEN <<" ", "%}">> ELSE <<>>
template_tag_close(c) == IF c = "YTMLJinja" THEN <<"{%", " ">> ELSE <<>>
template_tag_self_close(c) == IF c = "YTMLJinja" THEN <<" ", "%}">> ELSE <<>>

\* YTMLJinja does not override these two: they are '' in both classes
template_variable_start(c) == <<>>
template_variable_end(c) == <<>>

\* the keys of template_tag_convert
template_tag_convert_keys(c) ==
    IF c = "YTMLJinja"
    THEN { <<"for">>, <<"if">>, <<"then">>, <<"elif">>, <<"else">>,
           <<"block">>, <<"filter">>, <<"macro">>, <<"call">>, <<"raw">>,
           <<"include">>, <<"extends">>, <<"set">> }
    ELSE {}

\* template_tag_convert[name] = [start tag name, end tag name, use attributes]
template_tag_convert(c, name) ==
    CASE name = <<"for">>     -> << <<"for">>,     <<"endfor">>,    TRUE >>
      [] name = <<"if">>      -> << <<"if">>,      <<"endif">>,     TRUE >>
      [] name = <<"then">>    -> << <<>>,          <<>>,            FALSE >>
      [] name = <<"elif">>    -> << <<"elif">>,    <<>>,            TRUE >>
      [] name = <<"else">>    -> << <<"else">>,    <<>>,            FALSE >>
      [] name = <<"block">>   -> << <<"block">>,   <<"endblock">>,  TRUE >>
      [] name = <<"filter">>  -> << <<"filter">>,  <<"endfilter">>, TRUE >>
      [] name = <<"macro">>   -> << <<"macro">>,   <<"endmacro">>,  TRUE >>
      [] name = <<"call">>    -> << <<"call">>,    <<"endcall">>,   TRUE >>
      [] name = <<"raw">>     -> << <<"raw">>,     <<"endraw">>,    TRUE >>
      [] name = <<"include">> -> << <<"include">>, <<>>,            TRUE >>
      [] name = <<"extends">> -> << <<"extends">>, <<>>,            TRUE >>
      [] name = <<"set">>     -> << <<"set">>,     <<>>,            TRUE >>

-----------------------------------------------------------------------------
(* Error messages of the raised ValueError *)

ErrNotList == "obj must be a list"
ErrNotDict == "obj must be a list of dicts"
ErrKeys == "dicts in obj must have exactly one key"
ErrTemplate == "not supported template tag"
ErrVoid == "void tag must have no content"
ErrValue == "value must be a list or a string"

-----------------------------------------------------------------------------
(* YTML.init_flags *)

init_flags ==
    [ isvoid |-> FALSE, tagname |-> <<>>, starttagname |-> <<>>,
      endtagname |-> <<>>, attr |-> <<>>, attrspace |-> TRUE,
      tagstart |-> <<>>, tagend |-> <<>>, closetagstart |-> <<>>,
      longcontent |-> FALSE, usestart |-> TRUE, useindent |-> TRUE,
      convertattr |-> TRUE, useattr |-> TRUE, forcetemplate |-> FALSE ]

-----------------------------------------------------------------------------
(* YTML.parse_dict *)

\* re.match(r'([^\(\)\s]+)?\s?\((.*)\)$', key):
\* [matched, name (<<>> when group 1 is None), attr]
KeyMatch(key) ==
    LET n == NameRun(key, 1)
        \* \s? takes one whitespace after the name when there is one
        p == IF n < Len(key) /\ IsSpace(key[n + 1]) THEN n + 1 ELSE n
        \* $ matches at the end, or before a newline that ends the string
        e == IF key # <<>> /\ key[Len(key)] = "\n" THEN Len(key) - 1
             ELSE Len(key)
        ok == /\ p + 1 <= Len(key)
              /\ key[p + 1] = "("
              /\ e >= p + 2
              /\ key[e] = ")"
              \* . matches no newline
              /\ \A j \in (p + 2)..(e - 1) : key[j] # "\n"
    IN IF ok
       THEN [matched |-> TRUE, name |-> SubSeq(key, 1, n),
             attr |-> SubSeq(key, p + 2, e - 1)]
       ELSE [matched |-> FALSE, name |-> <<>>, attr |-> <<>>]

\* the tag name and the attribute string of a key, before the $ rule
KeyNameAttr(key, flags) ==
    LET m == KeyMatch(key)
    IN IF m.matched
       THEN [flags EXCEPT !.tagname = IF m.name = <<>> THEN <<"div">> ELSE m.name,
                          !.attr = m.attr]
       ELSE [flags EXCEPT !.tagname = IF key = <<>> THEN <<"div">> ELSE key]

\* a leading $ is removed and forces a template tag
ForceTemplate(flags) ==
    IF flags.tagname[1] = "$"
    THEN [flags EXCEPT !.tagname = Tail(@), !.forcetemplate = TRUE]
    ELSE flags

\* parse_dict with the key count checked against zero only
parse_dict_first_key(item, flags) ==
    IF item.type # "dict"
    THEN [err |-> ErrNotDict, flags |-> flags, value |-> None]
    ELSE IF Len(item.items) = 0
    THEN [err |-> ErrKeys, flags |-> flags, value |-> None]
    ELSE [err |-> "",
          flags |-> ForceTemplate(KeyNameAttr(item.items[1][1], flags)),
          value |-> item.items[1][2]]

\* [err, flags, value]
parse_dict(item, flags) ==
    IF item.type # "dict"
    THEN [err |-> ErrNotDict, flags |-> flags, value |-> None]
    ELSE IF Len(item.items) # 1
    THEN [err |-> ErrKeys, flags |-> flags, value |-> None]
    ELSE [err |-> "",
          flags |-> ForceTemplate(KeyNameAttr(item.items[1][1], flags)),
          value |-> item.items[1][2]]

-----------------------------------------------------------------------------
(* set_tag_type: [err, flags] *)

\* the elif and else branches and the settings common to the HTML tags
HtmlTagType(flags) ==
    LET f1 == IF flags.tagname \in void_tags
              THEN [flags EXCEPT !.isvoid = TRUE,
                                 !.tagend = html_tag_end_self_close]
              ELSE [flags EXCEPT !.tagend = html_tag_end,
                                 !.closetagstart = html_tag_end_close]
    IN [f1 EXCEPT !.tagstart = html_tag_start,
                  !.starttagname = flags.tagname,
                  !.endtagname = flags.tagname]

\* YTML.set_tag_type with forcetemplate ignored
YTML_set_tag_type_fallback(flags) == [err |-> "", flags |-> HtmlTagType(flags)]

YTML_set_tag_type(flags) ==
    IF flags.forcetemplate
    THEN [err |-> ErrTemplate, flags |-> flags]
    ELSE [err |-> "", flags |-> HtmlTagType(flags)]

YTMLJinja_set_tag_type(c, flags) ==
    IF flags.tagname \in template_tags(c)
    THEN IF flags.tagname \notin template_tag_convert_keys(c)
         THEN [err |-> ErrTemplate, flags |-> flags]
         ELSE LET t == template_tag_convert(c, flags.tagname)
              IN [err |-> "",
                  flags |-> [flags EXCEPT !.tagstart = template_tag_start(c),
                                          !.tagend = template_tag_end(c),
                                          !.closetagstart = template_tag_close(c),
                                          !.starttagname = t[1],
                                          !.endtagname = t[2],
                                          !.useindent = (t[2] # <<>>),
                                          !.useattr = t[3],
                                          !.convertattr = FALSE]]
    ELSE IF flags.tagname \in template_void_tags(c)
    THEN IF flags.tagname \notin template_tag_convert_keys(c)
         THEN [err |-> ErrTemplate, flags |-> flags]
         ELSE LET t == template_tag_convert(c, flags.tagname)
              IN [err |-> "",
                  flags |-> [flags EXCEPT !.isvoid = TRUE,
                                          !.tagstart = template_tag_start(c),
                                          !.tagend = template_tag_self_close(c),
                                          !.starttagname = t[1],
                                          !.useattr = t[3],
                                          !.convertattr = FALSE]]
    ELSE YTML_set_tag_type(flags)

\* the method the class of the object resolves to
set_tag_type(c, flags) ==
    IF c = "YTMLJinja" THEN YTMLJinja_set_tag_type(c, flags)
    ELSE YTML_set_tag_type(flags)

-----------------------------------------------------------------------------
(* YTML.convert_attr *)

\* re.sub(mark + r'(\S+)', name + '="\\1"', s) for the one-character mark
RECURSIVE SubShortcut(_, _, _)
SubShortcut(s, mark, name) ==
    IF s = <<>> THEN <<>>
    ELSE IF s[1] = mark /\ NonSpaceRun(s, 2) >= 1
    THEN LET r == NonSpaceRun(s, 2)
         IN <<name, "=", "\"">> \o SubSeq(s, 2, r + 1) \o <<"\"">>
            \o SubShortcut(From(s, r + 2), mark, name)
    ELSE <<s[1]>> \o SubShortcut(Tail(s), mark, name)

convert_attr(flags) ==
    IF flags.useattr
    THEN LET a1 == IF flags.convertattr
                   THEN SubShortcut(SubShortcut(flags.attr, ".", "class"), "#", "id")
                   ELSE flags.attr
             a2 == IF flags.attrspace /\ a1 # <<>> THEN <<" ">> \o a1 ELSE a1
         IN [flags EXCEPT !.attr = a2]
    ELSE [flags EXCEPT !.attr = <<>>]

-----------------------------------------------------------------------------
(* YTML.output_start_tag: [err, out, flags] *)

\* f'{tagstart}{starttagname}{attr}{tagend}'
StartTagText(flags) ==
    flags.tagstart \o flags.starttagname \o flags.attr \o flags.tagend

\* output_start_tag after the check of the content of a void tag
StartTagOut(flags, p, f) ==
    LET tagindent == get_add_indent(f, -1, <<p, ~flags.useindent>>)
        r1 == IF flags.starttagname # <<>>
              THEN output_space(f, <<p>>, tagindent) \o StartTagText(flags)
              ELSE <<>>
        fl == IF flags.starttagname # <<>> THEN flags
              ELSE [flags EXCEPT !.usestart = FALSE]
        r2 == IF flags.isvoid THEN output_newline(<<p>>) ELSE <<>>
    IN [err |-> "", out |-> r1 \o r2, flags |-> fl]

\* output_start_tag without the check of the content of a void tag
output_start_tag_unchecked(value, flags, p, f) == StartTagOut(flags, p, f)

output_start_tag(value, flags, p, f) ==
    IF flags.isvoid /\ value # None
    THEN [err |-> ErrVoid, out |-> <<>>, flags |-> flags]
    ELSE StartTagOut(flags, p, f)

-----------------------------------------------------------------------------
(* YTML.parse_children, the string branch *)

\* a match of r'{{\s*(\S+)\s*}}' at the start of s: [ok, name, len]
VariableMatch(s) ==
    IF ~(Len(s) >= 2 /\ s[1] = "{" /\ s[2] = "{")
    THEN [ok |-> FALSE, name |-> <<>>, len |-> 0]
    ELSE LET j == 3 + SpaceRun(s, 3)          \* first atom of the name
             k == j + NonSpaceRun(s, j)       \* first atom after the run
             m == k + SpaceRun(s, k)          \* first atom after the spaces
             \* the name is s[j..e-1]; greedy \S+ gives the longest that matches
             Ends == { e \in (j + 1)..k :
                          IF e = k
                          THEN m + 1 <= Len(s) /\ s[m] = "}" /\ s[m + 1] = "}"
                          ELSE e + 1 <= Len(s) /\ s[e] = "}" /\ s[e + 1] = "}" }
         IN IF Ends = {}
            THEN [ok |-> FALSE, name |-> <<>>, len |-> 0]
            ELSE LET e == CHOOSE x \in Ends : \A y \in Ends : y <= x
                 IN [ok |-> TRUE, name |-> SubSeq(s, j, e - 1),
                     len |-> IF e = k THEN m + 1 ELSE e + 1]

\* re.sub(r'{{\s*(\S+)\s*}}', f'{vstart}\\1{vend}', s)
RECURSIVE SubVariable(_, _, _)
SubVariable(s, vstart, vend) ==
    IF s = <<>> THEN <<>>
    ELSE LET m == VariableMatch(s)
         IN IF m.ok
            THEN vstart \o m.name \o vend
                 \o SubVariable(From(s, m.len + 1), vstart, vend)
            ELSE <<s[1]>> \o SubVariable(Tail(s), vstart, vend)

\* the five replace calls, in the order of the source
HtmlEscape(s) ==
    Replace(Replace(Replace(Replace(Replace(s,
        "&", <<"&", "amp;">>),
        "<", <<"&", "lt;">>),
        ">", <<"&", "gt;">>),
        "\"", <<"&", "quot;">>),
        "'", <<"&", "#39;">>)

\* re.sub(r'  \n', '<br/>\n', s)
RECURSIVE SubBreak(_)
SubBreak(s) ==
    IF s = <<>> THEN <<>>
    ELSE IF Len(s) >= 3 /\ s[1] = " " /\ s[2] = " " /\ s[3] = "\n"
    THEN <<"<", "br", "/>", "\n">> \o SubBreak(From(s, 4))
    ELSE <<s[1]>> \o SubBreak(Tail(s))

\* the text of a string value after the three conversions
ConvertText(c, s) ==
    SubBreak(HtmlEscape(SubVariable(s, template_variable_start(c),
                                       template_variable_end(c))))

\* the string branch: [out, flags, formatter]
parse_children_str(c, s, flags, p, f) ==
    LET text == ConvertText(c, s)
        long == Contains(text, "\n")
        r1 == IF long THEN output_newline(<<p>>) ELSE <<>>
        f1 == IF long THEN add_indent(f, <<p>>) ELSE f
        fl == IF long THEN [flags EXCEPT !.longcontent = TRUE] ELSE flags
    IN [out |-> r1 \o output_indented_text(f1, text, <<p, fl.longcontent>>)
                   \o output_newline(<<p, fl.longcontent>>),
        flags |-> fl, formatter |-> f1]

\* the list branch up to the recursive call: [out, flags, formatter]
parse_children_list(flags, p, f) ==
    [out |-> output_newline(<<p, flags.usestart>>),
     flags |-> [flags EXCEPT !.longcontent = TRUE],
     formatter |-> add_indent(f, <<p, flags.useindent, flags.usestart>>)]

-----------------------------------------------------------------------------
(* YTML.output_endtag: [out, formatter] *)

\* f'{closetagstart}{endtagname}{tagend}'
EndTagText(flags) == flags.closetagstart \o flags.endtagname \o flags.tagend

output_endtag(flags, p, f) ==
    LET f1 == del_indent(f, <<p, flags.longcontent, flags.useindent>>)
    IN [out |-> IF flags.endtagname # <<>>
                THEN output_space(f1, <<p, flags.longcontent>>, -1)
                     \o EndTagText(flags) \o output_newline(<<p>>)
                ELSE <<>>,
        formatter |-> f1]

-----------------------------------------------------------------------------
(* Input trees *)

\* the largest number of descriptors of a generated tree
MaxNodes == 2

\* name(attr)
Key(name, attr) == name \o <<"(">> \o attr \o <<")">>

HtmlVoidNames ==
    { <<"area">>, <<"base">>, <<"br">>, <<"col">>, <<"embed">>, <<"hr">>,
      <<"img">>, <<"input">>, <<"link">>, <<"meta">>, <<"param">>,
      <<"source">>, <<"track">>, <<"wbr">> }

TemplateVoidNames == { <<"include">>, <<"extends">>, <<"set">> }

BlockNames ==
    { <<"for">>, <<"if">>, <<"block">>, <<"filter">>, <<"macro">>, <<"call">>,
      <<"raw">> }

EmptyCloseNames == { <<"else">>, <<"elif">>, <<"then">> }

\* the keys of the one-descriptor trees
AllKeys ==
    HtmlVoidNames \cup TemplateVoidNames \cup BlockNames \cup EmptyCloseNames
    \cup { Key(n, <<"x", " ", "in", " ", "a", ".", "b">>) :
              n \in {<<"for">>, <<"elif">>, <<"else">>, <<"include">>, <<"br">>} }
    \cup { <<>>, <<"p">>, <<"div">>, <<" ">>,
           Key(<<>>, <<".", "a">>), Key(<<>>, <<"#", "x">>),
           Key(<<>>, <<".", "a", ".", "b">>),
           <<"(", ".", "a", ")", "(", ".", "b", ")">>,
           Key(<<>>, <<".", "a", " ", ".", "b">>),
           Key(<<>>, <<".", "a", " ", "#", "x">>),
           Key(<<"p">>, <<"#", "x", ".", "a">>),
           Key(<<"p", " ">>, <<".">>),
           Key(<<"a">>, <<"href", "=", "\"", "x", ".", "html", "\"">>),
           Key(<<"html">>, <<"lang", "=", "\"", "ja", "\"">>),
           <<"p", "(", "x">>, <<"p", " ", " ", "(", "x", ")">> }
    \cup { <<"$">> \o k :
              k \in { <<>>, <<"for">>, Key(<<"for">>, <<"x">>), <<"then">>,
                      <<"include">>, <<"nonexistent">>, <<"div">>, <<"br">>,
                      Key(<<>>, <<".", "a">>) } }

\* the string values
Strings ==
    { <<>>, <<"t">>, <<"a", "\n", "b">>, <<"a", " ", " ", "\n", "b", "\n">>,
      <<"a", " ", "\n">>,
      <<"{", "{", " ", "name", " ", "}", "}">>, <<"{", "{", "name", "}", "}">>,
      <<"{", "{", " ", " ", "name", "\n", "}", "}", " ", "t">>,
      <<"{", "{", " ", "}", "}">>, <<"{", "{", "a", "}", "}", "}", "}">>,
      <<"a", "&", "<", "b", ">", "\"", "'">> }

\* the values of a descriptor that holds no descriptor
Leaves == {None, PyInt, PyList(<<>>)} \cup { PyStr(s) : s \in Strings }

\* the items of a list that are no descriptor
Malformed ==
    { PyStr(<<"t">>), PyDict(<<>>),
      PyDict(<< <<<<"p">>, None>>, <<<<"br">>, None>> >>) }

\* keys and values of the generated trees
CoreKeys == { <<"p">>, <<"br">>, Key(<<"for">>, <<"x">>), <<"else">> }

CoreLeaves == { None, PyStr(<<"t">>), PyStr(<<"a", "\n", "b">>) }

CoreMalformed ==
    { PyStr(<<"t">>), PyDict(<< <<<<"p">>, None>>, <<<<"br">>, None>> >>),
      Desc(<<"p">>, PyInt) }

\* ForestsN(n): the sequences of items with n descriptors in total;
\* DescsN(n): the items with n descriptors, the item itself included
RECURSIVE ForestsN(_), DescsN(_)
ForestsN(n) ==
    IF n = 0 THEN { <<>> }
    ELSE UNION { { <<d>> \o rest : d \in DescsN(k), rest \in ForestsN(n - k) } :
                    k \in 1..n }

DescsN(n) ==
    { Desc(k, PyList(f)) : k \in CoreKeys, f \in ForestsN(n - 1) }
    \cup (IF n = 1
          THEN { Desc(k, v) : k \in CoreKeys, v \in CoreLeaves } \cup CoreMalformed
          ELSE {})

\* the example of the module docstring
DocExample ==
    PyList(<< Desc(Key(<<"html">>, <<"lang", "=", "\"", "ja", "\"">>), PyList(<<
        Desc(<<"head">>, PyList(<<
            Desc(Key(<<"meta">>, <<"charset", "=", "\"", "UTF-8", "\"">>), None),
            Desc(<<"title">>, PyStr(<<"Hello,", " ", "World!">>)) >>)),
        Desc(<<"body">>, PyList(<<
            Desc(<<"h1">>, PyStr(<<"Hello,", " ", "World!">>)),
            Desc(Key(<<>>, <<".", "container">>), PyStr(<<"container.">>)),
            Desc(Key(<<>>, <<"#", "test">>), PyStr(<<"id.">>)) >>)) >>)) >>)

\* html(lang="ja") > body > h1 'Hello'
HelloExample ==
    PyList(<< Desc(Key(<<"html">>, <<"lang", "=", "\"", "ja", "\"">>), PyList(<<
        Desc(<<"body">>, PyList(<<
            Desc(<<"h1">>, PyStr(<<"Hello">>)) >>)) >>)) >>)

\* for(item in items) > p '{{ item }}'
ForExample ==
    PyList(<< Desc(Key(<<"for">>, <<"item", " ", "in", " ", "items">>), PyList(<<
        Desc(<<"p">>, PyStr(<<"{", "{", " ", "item", " ", "}", "}">>)) >>)) >>)

\* div > if(x) > p, else '...', p ; then a sibling
IfElseExample ==
    PyList(<< Desc(<<"div">>, PyList(<<
        Desc(Key(<<"if">>, <<"x">>), PyList(<<
            Desc(<<"p">>, PyStr(<<"a">>)),
            Desc(<<"else">>, PyStr(<<"b", "\n", "c">>)),
            Desc(<<"p">>, PyStr(<<"d">>)) >>)),
        Desc(<<"hr">>, None) >>)) >>)

\* if(x) > then > p ; elif(y) > p ; else > p
ThenExample ==
    PyList(<< Desc(Key(<<"if">>, <<"x">>), PyList(<<
        Desc(<<"then">>, PyList(<< Desc(<<"p">>, PyStr(<<"a">>)) >>)),
        Desc(Key(<<"elif">>, <<"y">>), PyList(<< Desc(<<"p">>, PyStr(<<"b">>)) >>)),
        Desc(<<"else">>, PyList(<< Desc(<<"p">>, PyStr(<<"c">>)) >>)) >>)) >>)

Examples == {DocExample, HelloExample, ForExample, IfElseExample, ThenExample}

Trees ==
    { PyList(<<Desc(k, v)>>) : k \in AllKeys, v \in Leaves }
    \cup { PyList(<<m>>) : m \in Malformed }
    \cup { PyList(f) : f \in UNION { ForestsN(n) : n \in 0..MaxNodes } }
    \cup Examples
    \cup { None, PyStr(<<"t">>), Desc(<<"p">>, None) }

\* the indent widths of the calls: the default and a narrower one
IndentLens == {2, DefaultIndentLen}

-----------------------------------------------------------------------------
(* The calls of obj_to_html *)

\* what a top-level call gave: nothing yet, a text, or a raised ValueError
NoResult == [done |-> FALSE, err |-> "", text |-> <<>>]

Returned(text) == [done |-> TRUE, err |-> "", text |-> text]

Raised(msg) == [done |-> TRUE, err |-> msg, text |-> <<>>]

\* a frame of obj_to_html: the list, the index of the item of the loop, the
\* position in the loop body, the locals flags, value and result.  Two history
\* fields record what held when the item of the loop was taken: level, the
\* indentation of the formatter, and start, the length of result
Frame(items) ==
    [obj |-> items, i |-> 1, pc |-> "for", flags |-> init_flags,
     value |-> None, result |-> <<>>, level |-> 0, start |-> 0]

top == stack[Len(stack)]

SetTop(fr) == [stack EXCEPT ![Len(stack)] = fr]

\* a raised ValueError leaves every frame: the top-level call gives no text
Raise(msg) ==
    /\ stack' = <<>>
    /\ returned' = [returned EXCEPT ![pretty] = Raised(msg)]

Init ==
    /\ obj \in Trees
    /\ cls \in Classes
    /\ indent_len \in IndentLens
    /\ pretty = FALSE
    /\ formatter = PrettyFormatter(indent_len)
    /\ stack = <<>>
    /\ returned = [p \in BOOLEAN |-> NoResult]

\* ytml.obj_to_html(obj, pretty=p, indent_len=indent_len): the check of the argument, the formatter.
\* The tree is rendered twice, each call with a formatter of its own: first
\* in compact mode, then in pretty mode
ObjToHtml(p) ==
    /\ stack = <<>>
    /\ ~returned[p].done
    /\ p => returned[FALSE].done
    /\ pretty' = p
    /\ formatter' = PrettyFormatter(indent_len)
    /\ IF obj.type # "list"
       THEN /\ stack' = <<>>
            /\ returned' = [returned EXCEPT ![p] = Raised(ErrNotList)]
       ELSE /\ stack' = <<Frame(obj.items)>>
            /\ UNCHANGED returned
    /\ UNCHANGED <<obj, cls, indent_len>>

\* for item in obj: flags = self.init_flags()
NextItem ==
    /\ stack # <<>>
    /\ top.pc = "for"
    /\ top.i <= Len(top.obj)
    /\ stack' = SetTop([top EXCEPT !.pc = "parse_dict", !.flags = init_flags,
                                   !.value = None, !.level = formatter.indent,
                                   !.start = Len(top.result)])
    /\ UNCHANGED <<obj, cls, indent_len, pretty, formatter, returned>>

ParseDict ==
    /\ stack # <<>>
    /\ top.pc = "parse_dict"
    /\ LET r == parse_dict(top.obj[top.i], top.flags)
       IN IF r.err # ""
          THEN Raise(r.err)
          ELSE /\ stack' = SetTop([top EXCEPT !.pc = "set_tag_type",
                                              !.flags = r.flags,
                                              !.value = r.value])
               /\ UNCHANGED returned
    /\ UNCHANGED <<obj, cls, indent_len, pretty, formatter>>

SetTagType ==
    /\ stack # <<>>
    /\ top.pc = "set_tag_type"
    /\ LET r == set_tag_type(cls, top.flags)
       IN IF r.err # ""
          THEN Raise(r.err)
          ELSE /\ stack' = SetTop([top EXCEPT !.pc = "convert_attr",
                                              !.flags = r.flags])
               /\ UNCHANGED returned
    /\ UNCHANGED <<obj, cls, indent_len, pretty, formatter>>

ConvertAttr ==
    /\ stack # <<>>
    /\ top.pc = "convert_attr"
    /\ stack' = SetTop([top EXCEPT !.pc = "output_start_tag",
                                   !.flags = convert_attr(top.flags)])
    /\ UNCHANGED <<obj, cls, indent_len, pretty, formatter, returned>>

\* result += self.output_start_tag(...); if flags['isvoid']: continue
OutputStartTag ==
    /\ stack # <<>>
    /\ top.pc = "output_start_tag"
    /\ LET r == output_start_tag(top.value, top.flags, pretty, formatter)
       IN IF r.err # ""
          THEN Raise(r.err)
          ELSE /\ stack' = SetTop(
                      IF r.flags.isvoid
                      THEN [top EXCEPT !.pc = "for", !.i = @ + 1,
                                       !.flags = r.flags,
                                       !.result = @ \o r.out]
                      ELSE [top EXCEPT !.pc = "parse_children",
                                       !.flags = r.flags,
                                       !.result = @ \o r.out])
               /\ UNCHANGED returned
    /\ UNCHANGED <<obj, cls, indent_len, pretty, formatter>>

\* parse_children with a list: up to the nested call of obj_to_html
ParseChildrenList ==
    /\ stack # <<>>
    /\ top.pc = "parse_children"
    /\ top.value.type = "list"
    /\ LET r == parse_children_list(top.flags, pretty, formatter)
       IN /\ formatter' = r.formatter
          /\ stack' = Append(SetTop([top EXCEPT !.pc = "call",
                                                !.flags = r.flags,
                                                !.result = @ \o r.out]),
                             Frame(top.value.items))
    /\ UNCHANGED <<obj, cls, indent_len, pretty, returned>>

\* parse_children with a string
ParseChildrenStr ==
    /\ stack # <<>>
    /\ top.pc = "parse_children"
    /\ top.value.type = "str"
    /\ LET r == parse_children_str(cls, top.value.s, top.flags, pretty, formatter)
       IN /\ formatter' = r.formatter
          /\ stack' = SetTop([top EXCEPT !.pc = "output_endtag",
                                         !.flags = r.flags,
                                         !.result = @ \o r.out])
    /\ UNCHANGED <<obj, cls, indent_len, pretty, returned>>

\* parse_children with None, or with a value of another type
ParseChildrenOther ==
    /\ stack # <<>>
    /\ top.pc = "parse_children"
    /\ top.value.type \notin {"list", "str"}
    /\ IF top.value = None
       THEN /\ stack' = SetTop([top EXCEPT !.pc = "output_endtag"])
            /\ UNCHANGED returned
       ELSE Raise(ErrValue)
    /\ UNCHANGED <<obj, cls, indent_len, pretty, formatter>>

OutputEndtag ==
    /\ stack # <<>>
    /\ top.pc = "output_endtag"
    /\ LET r == output_endtag(top.flags, pretty, formatter)
       IN /\ formatter' = r.formatter
          /\ stack' = SetTop([top EXCEPT !.pc = "for", !.i = @ + 1,
                                         !.result = @ \o r.out])
    /\ UNCHANGED <<obj, cls, indent_len, pretty, returned>>

\* return result: to parse_children of the caller, which returns in its turn,
\* or to the caller of the top-level call
Return ==
    /\ stack # <<>>
    /\ top.pc = "for"
    /\ top.i > Len(top.obj)
    /\ IF Len(stack) = 1
       THEN /\ stack' = <<>>
            /\ returned' = [returned EXCEPT ![pretty] = Returned(top.result)]
       ELSE /\ LET caller == stack[Len(stack) - 1]
               IN stack' = Append(SubSeq(stack, 1, Len(stack) - 2),
                                  [caller EXCEPT !.pc = "output_endtag",
                                                 !.result = @ \o top.result])
            /\ UNCHANGED returned
    /\ UNCHANGED <<obj, cls, indent_len, pretty, formatter>>

Next ==
    \/ \E p \in BOOLEAN : ObjToHtml(p)
    \/ NextItem
    \/ ParseDict
    \/ SetTagType
    \/ ConvertAttr
    \/ OutputStartTag
    \/ ParseChildrenList
    \/ ParseChildrenStr
    \/ ParseChildrenOther
    \/ OutputEndtag
    \/ Return

Spec == Init /\ [][Next]_vars

-----------------------------------------------------------------------------
(* What the properties speak of *)

IsPrefix(x, s) == Len(x) <= Len(s) /\ SubSeq(s, 1, Len(x)) = x

IsSuffix(x, s) == Len(x) <= Len(s) /\ SubSeq(s, Len(s) - Len(x) + 1, Len(s)) = x

\* s is empty or its last line is ended
EndsLine(s) == s = <<>> \/ s[Len(s)] = "\n"

Count(s, c) == Cardinality({ i \in DOMAIN s : s[i] = c })

\* the number of spaces s starts with
RECURSIVE LeadingSpaces(_)
LeadingSpaces(s) ==
    IF s # <<>> /\ s[1] = " " THEN 1 + LeadingSpaces(Tail(s)) ELSE 0

\* s without its whitespace
RECURSIVE NoSpace(_)
NoSpace(s) ==
    IF s = <<>> THEN <<>>
    ELSE (IF IsSpace(s[1]) THEN <<>> ELSE <<s[1]>>) \o NoSpace(Tail(s))

\* the nesting depth of the item of the innermost loop
Depth == Len(stack) - 1

\* what the item of the innermost loop has emitted so far
ItemOut == From(top.result, top.start + 1)

\* what the call had emitted when the item of the innermost loop was taken
RECURSIVE ResultsOf(_)
ResultsOf(frames) ==
    IF frames = <<>> THEN <<>>
    ELSE ResultsOf(SubSeq(frames, 1, Len(frames) - 1))
         \o frames[Len(frames)].result

Before ==
    ResultsOf(SubSeq(stack, 1, Len(stack) - 1)) \o SubSeq(top.result, 1, top.start)

\* the innermost loop has just finished an item (its locals are still those
\* of that item)
ItemDone == stack # <<>> /\ top.pc = "for" /\ top.i > 1

\* the key of the item of the innermost loop
ItemKey == top.obj[IF top.pc = "for" THEN top.i - 1 ELSE top.i].items[1][1]

NL(p) == IF p THEN <<"\n">> ELSE <<>>

Indent(p, n) == IF p THEN Spaces(formatter.indent_len * n) ELSE <<>>

-----------------------------------------------------------------------------
\* C1: for a void-kind tag name (the 14 HTML void elements in either dialect;
\* include, extends, set in the template dialect), the start-tag step of a
\* descriptor whose value is null appends exactly one self-closing tag (and
\* the newline of pretty mode), with no content and no end tag, and goes on to
\* the next sibling; with any other value it raises 'void tag must have no
\* content' and the top-level call returns no text.
IsVoidKind ==
    \/ top.flags.tagname \in HtmlVoidNames /\ ~top.flags.forcetemplate
    \/ top.flags.tagname \in TemplateVoidNames /\ cls = "YTMLJinja"

SelfClosing ==
    IF top.flags.tagname \in HtmlVoidNames
    THEN <<"<">> \o top.flags.tagname \o top.flags.attr \o <<"/>">>
    ELSE <<"{%", " ">> \o top.flags.tagname \o top.flags.attr \o <<" ", "%}">>

C1_VoidTag ==
    [][ (stack # <<>> /\ top.pc = "output_start_tag" /\ IsVoidKind) =>
          IF top.value = None
          THEN /\ Len(stack') = Len(stack)
               /\ stack'[Len(stack)].result =
                      top.result \o Indent(pretty, formatter.indent)
                      \o SelfClosing \o NL(pretty)
               /\ stack'[Len(stack)].pc = "for"
               /\ stack'[Len(stack)].i = top.i + 1
               /\ returned' = returned
          ELSE /\ stack' = <<>>
               /\ returned' = [returned EXCEPT ![pretty] = Raised(ErrVoid)] ]_vars

\* a br with a null value was rendered in pretty mode and a sibling follows
C1_Witness ==
    /\ ItemDone
    /\ pretty
    /\ top.i = 2
    /\ Len(top.obj) = 2
    /\ top.flags.tagname = <<"br">>
    /\ top.result = <<"<", "br", "/>", "\n">>

-----------------------------------------------------------------------------
\* C2: pretty mode, HTML dialect: an element at nesting depth d starts its
\* start tag on a line of its own after exactly d * indent_len spaces; with a
\* sequence value the children are rendered at depth d + 1 and the end tag is
\* on a line of its own after the same d * indent_len spaces; with a
\* single-line string value the start tag, the text and the end tag are on
\* one line.
HtmlStartTag == <<"<">> \o top.flags.tagname \o top.flags.attr \o <<">">>

HtmlEndTag == <<"</">> \o top.flags.tagname \o <<">">>

\* the start tag of a non-void element has just been emitted
C2_StartTag ==
    (stack # <<>> /\ top.pc = "parse_children") =>
        /\ EndsLine(Before)
        /\ ItemOut = Spaces(Depth * formatter.indent_len) \o HtmlStartTag

\* a void element has just been emitted
C2_VoidTag ==
    (ItemDone /\ top.flags.tagname \in HtmlVoidNames) =>
        /\ EndsLine(Before)
        /\ ItemOut = Spaces(Depth * formatter.indent_len) \o SelfClosing
                     \o <<"\n">>

\* an element with a sequence value has just been finished
C2_Sequence ==
    (ItemDone /\ top.value.type = "list") =>
        LET head == Spaces(Depth * formatter.indent_len) \o HtmlStartTag
                    \o <<"\n">>
            foot == Spaces(Depth * formatter.indent_len) \o HtmlEndTag
                    \o <<"\n">>
        IN /\ IsPrefix(head, ItemOut)
           /\ IsSuffix(foot, ItemOut)
           /\ Len(ItemOut) >= Len(head) + Len(foot)
           \* the children are whole lines
           /\ EndsLine(SubSeq(ItemOut, 1, Len(ItemOut) - Len(foot)))

\* an element with a single-line string value has just been finished
C2_SingleLine ==
    (ItemDone /\ top.value.type = "str" /\ ~Contains(top.value.s, "\n")) =>
        /\ IsPrefix(Spaces(Depth * formatter.indent_len) \o HtmlStartTag, ItemOut)
        /\ IsSuffix(HtmlEndTag \o <<"\n">>, ItemOut)
        /\ Count(ItemOut, "\n") = 1

C2_PrettyHtml ==
    (pretty /\ cls = "YTML") =>
        C2_StartTag /\ C2_VoidTag /\ C2_Sequence /\ C2_SingleLine

\* html(lang="ja") > body > h1 'Hello': the indentations are 0, 4, 8, 4, 0
C2_Witness ==
    /\ obj = HelloExample
    /\ cls = "YTML"
    /\ indent_len = 4
    /\ returned[TRUE] = Returned(
          <<"<", "html", " ", "lang", "=", "\"", "ja", "\"", ">", "\n">>
          \o Spaces(4) \o <<"<", "body", ">", "\n">>
          \o Spaces(8) \o <<"<", "h1", ">", "Hello", "</", "h1", ">", "\n">>
          \o Spaces(4) \o <<"</", "body", ">", "\n">>
          \o <<"</", "html", ">", "\n">>)

-----------------------------------------------------------------------------
\* C3: every .token shortcut of the attribute string becomes its own
\* class="token" attribute and every #token shortcut id="token", each
\* converted on its own: the keys (.a.b) and (.a)(.b) both yield class="a" and
\* class="b", and (#x) yields id="x".
HasSub(x, s) == \E i \in 1..(Len(s) - Len(x) + 1) : SubSeq(s, i, i + Len(x) - 1) = x

ClassAttr(t) == <<"class", "=", "\"", t, "\"">>

IdAttr(t) == <<"id", "=", "\"", t, "\"">>

C3_Shorthand ==
    (stack # <<>> /\ top.pc = "output_start_tag") =>
        /\ ItemKey \in { <<"(", ".", "a", ".", "b", ")">>,
                         <<"(", ".", "a", ")", "(", ".", "b", ")">>,
                         <<"(", ".", "a", " ", ".", "b", ")">> }
              => /\ HasSub(ClassAttr("a"), top.flags.attr)
                 /\ HasSub(ClassAttr("b"), top.flags.attr)
        /\ ItemKey = <<"(", "#", "x", ")">>
              => HasSub(IdAttr("x"), top.flags.attr)

-----------------------------------------------------------------------------
\* C4: in string content a placeholder {{ name }}, with any whitespace around
\* name, is rendered as name between the variable delimiters of the dialect,
\* so that the template dialect marks it as a variable reference: the output
\* is not that of the plain text name.
Placeholders ==
    { <<"{", "{", " ", "name", " ", "}", "}">>, <<"{", "{", "name", "}", "}">> }

C4_Variable ==
    \A p \in BOOLEAN :
        (/\ cls = "YTMLJinja"
         /\ returned[p].done
         /\ \E s \in Placeholders : obj = PyList(<<Desc(<<"p">>, PyStr(s))>>))
        => /\ returned[p].err = ""
           /\ returned[p].text # <<"<", "p", ">", "name", "</", "p", ">">> \o NL(p)

-----------------------------------------------------------------------------
\* C5: template dialect, pretty mode: a block directive with a close keyword
\* (for, if, block, filter, macro, call, raw) and a sequence value renders the
\* open directive with the raw attribute expression on a line of its own, then
\* each child on its own line one level deeper, then the close directive with
\* the matching keyword on a line of its own at the indentation of the open
\* directive.
CloseKeyword(name) ==
    CASE name = <<"for">>    -> <<"endfor">>
      [] name = <<"if">>     -> <<"endif">>
      [] name = <<"block">>  -> <<"endblock">>
      [] name = <<"filter">> -> <<"endfilter">>
      [] name = <<"macro">>  -> <<"endmacro">>
      [] name = <<"call">>   -> <<"endcall">>
      [] name = <<"raw">>    -> <<"endraw">>

\* every line of s that is not blank starts with at least n spaces
LinesIndented(lines, n) ==
    \A i \in DOMAIN lines :
        Strip(lines[i]) = <<>> \/ LeadingSpaces(lines[i]) >= n

C5_BlockDirective ==
    (/\ ItemDone
     /\ pretty
     /\ cls = "YTMLJinja"
     /\ top.flags.tagname \in BlockNames
     /\ top.value.type = "list") =>
        LET n == LeadingSpaces(ItemOut)
            raw == KeyMatch(ItemKey).attr
            open == Spaces(n) \o <<"{%", " ">> \o top.flags.tagname
                    \o (IF raw = <<>> THEN <<>> ELSE <<" ">> \o raw)
                    \o <<" ", "%}", "\n">>
            close == Spaces(n) \o <<"{%", " ">> \o CloseKeyword(top.flags.tagname)
                     \o <<" ", "%}", "\n">>
            mid == SubSeq(ItemOut, Len(open) + 1, Len(ItemOut) - Len(close))
        IN /\ IsPrefix(open, ItemOut)
           /\ IsSuffix(close, ItemOut)
           /\ Len(ItemOut) >= Len(open) + Len(close)
           /\ EndsLine(mid)
           /\ LinesIndented(Split(mid), n + formatter.indent_len)

-----------------------------------------------------------------------------
\* C6: pretty mode, either dialect: the output is made of lines ended by a
\* newline: what a descriptor emits is ended by a newline before the next
\* sibling begins, and a result that is not empty ends with a newline; also
\* for the directives with no close keyword (else, elif, then).
C6_Lines ==
    /\ (ItemDone /\ pretty) => EndsLine(ItemOut)
    /\ (returned[TRUE].done /\ returned[TRUE].err = "")
          => EndsLine(returned[TRUE].text)

-----------------------------------------------------------------------------
\* C7: for every tree and either dialect, the pretty call and the compact
\* call fail together, and their texts are equal once all whitespace is
\* removed.
C7_PrettyCompact ==
    (returned[TRUE].done /\ returned[FALSE].done) =>
        /\ returned[TRUE].err = returned[FALSE].err
        /\ NoSpace(returned[TRUE].text) = NoSpace(returned[FALSE].text)

\* both calls of a tree with multi-line text returned, with different texts
C7_Witness ==
    /\ returned[TRUE].done /\ returned[FALSE].done
    /\ returned[TRUE].err = ""
    /\ obj = IfElseExample
    /\ cls = "YTMLJinja"
    /\ returned[TRUE].text # returned[FALSE].text
    /\ Contains(returned[TRUE].text, "c")

-----------------------------------------------------------------------------
\* C8: a tag name with a leading $ is a directive of the dialect or an error:
\* when the name without the $ is no directive of the dialect (none is, in
\* the HTML dialect) the classification raises 'not supported template tag';
\* otherwise (template dialect) the descriptor is given the directive's
\* delimiters.  It is never classified as an HTML element.
DirectiveNames(c) ==
    IF c = "YTMLJinja"
    THEN BlockNames \cup EmptyCloseNames \cup TemplateVoidNames
    ELSE {}

C8_ForcedDirective ==
    [][ (stack # <<>> /\ top.pc = "set_tag_type" /\ top.flags.forcetemplate) =>
          IF top.flags.tagname \in DirectiveNames(cls)
          THEN /\ Len(stack') = Len(stack)
               /\ stack'[Len(stack)].flags.tagstart = <<"{%", " ">>
               /\ returned' = returned
          ELSE /\ stack' = <<>>
               /\ returned' = [returned EXCEPT ![pretty] =
                                  Raised(ErrTemplate)] ]_vars

\* {"$nonexistent": null} has failed in both modes of the template dialect
C8_Witness ==
    /\ obj = PyList(<<Desc(<<"$", "nonexistent">>, None)>>)
    /\ cls = "YTMLJinja"
    /\ returned[TRUE] = Raised(ErrTemplate)
    /\ returned[FALSE] = Raised(ErrTemplate)

-----------------------------------------------------------------------------
\* C9: a top-level call returns a text only for a tree of the right shape:
\* when the root is no sequence, or an item at any depth is no mapping with
\* exactly one key, or the value of a descriptor is neither null, a string
\* nor a sequence, the call fails and returns no text.
RECURSIVE IllShapedItems(_)
IllShapedItems(items) ==
    \E i \in DOMAIN items :
        \/ items[i].type # "dict"
        \/ Len(items[i].items) # 1
        \/ items[i].items[1][2].type \notin {"NoneType", "str", "list"}
        \/ /\ items[i].items[1][2].type = "list"
           /\ IllShapedItems(items[i].items[1][2].items)

IllShaped(o) == o.type # "list" \/ IllShapedItems(o.items)

C9_Atomicity ==
    \A p \in BOOLEAN :
        (returned[p].done /\ IllShaped(obj)) =>
            returned[p].err # "" /\ returned[p].text = <<>>

\* a mapping with two keys inside an element whose start tag was rendered
C9_Witness ==
    /\ obj = PyList(<<Desc(<<"p">>, PyList(<<
                 PyDict(<< <<<<"p">>, None>>, <<<<"br">>, None>> >>) >>)) >>)
    /\ returned[TRUE] = Raised(ErrKeys)

-----------------------------------------------------------------------------
\* C10: pretty mode, either dialect: the indentation level is never negative,
\* once a descriptor is fully rendered the level is the one it had when the
\* descriptor was started, and the level is 0 when the top-level call
\* returns; also for the directives with no close keyword and a multi-line
\* string.
C10_Balance ==
    pretty =>
        /\ formatter.indent >= 0
        /\ ItemDone => formatter.indent = top.level
        /\ (returned[TRUE].done /\ returned[TRUE].err = "") => formatter.indent = 0

====
